---- MODULE Spec2Model ----
(***************************************************************************)
(* A model of finance_buddy: the Capital One statement parser              *)
(* (capital_one.py: analyze_capitalone_pdf and                             *)
(* parse_capitalone_transactions_text) and the transaction classifier it   *)
(* calls once per matched row (classification.py: TransactionClassifier).  *)
(*                                                                         *)
(* Text is modelled by what the code reads of it.  An amount is a sequence *)
(* of one-character strings, matched, stripped, parsed and formatted the   *)
(* way the regular expressions, Decimal() and locale.currency() do it.  A  *)
(* description is a sequence of words.  A line is a record that carries    *)
(* the fields the patterns capture.                                        *)
(***************************************************************************)
EXTENDS Integers, Sequences, FiniteSets, TLC

VARIABLES
    data,                     \* the accumulated document: holder -> account
    current_queue,            \* data["current_queue"]
    current_name,             \* local of parse_capitalone_transactions_text
    current_account,          \* local
    have_continuation,        \* local
    processing_transactions,  \* local
    transaction_ct,           \* local
    pc,                       \* where analyze_capitalone_pdf stands
    err,                      \* why the session ended, when it was aborted
    line,                     \* the line the loop consumed last on this page
    page_num,                 \* pages handed to the parser so far
    unread,                   \* lines of the current page text not yet consumed
    lines_left,               \* lines of the statement on the pages still to come
    marker_open,              \* history: have_continuation, not reset by a new call
    clf,                      \* the TransactionClassifier instance and its files
    ml,                       \* what the fitted model answers
    result,                   \* the last predict_category call: what it returned
                              \* and the classifier it began with
    ret,                      \* the last train_and_save or save_descriptions call
    threads,                  \* concurrent callers on the instance: where each stands
    reader,                   \* another process that loads the artifacts
    training_runs,            \* history: the callers that started a training run
    cleaned,                  \* clean_text: the text given and what the passes returned
    trial                     \* scenario runs: the drawn input and both outcomes

vars == <<data, current_queue, current_name, current_account, have_continuation,
          processing_transactions, transaction_ct, pc, err, line, page_num,
          unread, lines_left, marker_open, clf, ml, result, ret, threads, reader,
          training_runs, cleaned, trial>>

thread_vars == <<threads, reader, training_runs>>

parser_vars == <<data, current_queue, current_name, current_account,
                 have_continuation, processing_transactions, transaction_ct,
                 pc, err, line, page_num, unread, lines_left, marker_open>>

-----------------------------------------------------------------------------
(* Bounds of the model. *)

MaxPages == 2
MaxLines == 7
MaxRows == 2

-----------------------------------------------------------------------------
(* Characters, digits and amounts. *)

None == "None"

DigitChars == <<"0", "1", "2", "3", "4", "5", "6", "7", "8", "9">>

IsDigit(c) == \E i \in 1..10 : DigitChars[i] = c

DigitVal(c) == (CHOOSE i \in 1..10 : DigitChars[i] = c) - 1

DigitChar(n) == DigitChars[n + 1]

\* The number of leading digits of s from position i on.
RECURSIVE DigitRun(_, _)
DigitRun(s, i) ==
    IF i <= Len(s) /\ IsDigit(s[i]) THEN 1 + DigitRun(s, i + 1) ELSE 0

\* (?:,\d{3})* from position i on, greedy: the position after the last group.
RECURSIVE ThousandsGroups(_, _)
ThousandsGroups(s, i) ==
    IF i + 3 <= Len(s) /\ s[i] = ","
       /\ IsDigit(s[i + 1]) /\ IsDigit(s[i + 2]) /\ IsDigit(s[i + 3])
    THEN ThousandsGroups(s, i + 4)
    ELSE i

Min(a, b) == IF a <= b THEN a ELSE b

\* \$\d{1,3}(?:,\d{3})*(?:\.\d{1,2}) at the start of s: the matched text, or <<>>.
RowAmountMatch(s) ==
    IF Len(s) = 0 \/ s[1] # "$" THEN <<>>
    ELSE LET run == DigitRun(s, 2)
         IN IF run = 0 \/ run > 3 THEN <<>>
            ELSE LET j == ThousandsGroups(s, 2 + run)
                     frac == IF j <= Len(s) /\ s[j] = "."
                             THEN Min(DigitRun(s, j + 1), 2) ELSE 0
                 IN IF frac = 0 THEN <<>> ELSE SubSeq(s, 1, j + frac)

\* \$\d+(?:,\d{3})*\.\d{2} at the start of s: the matched text, or <<>>.
TrailerAmountMatch(s) ==
    IF Len(s) = 0 \/ s[1] # "$" THEN <<>>
    ELSE LET run == DigitRun(s, 2)
         IN IF run = 0 THEN <<>>
            ELSE LET j == ThousandsGroups(s, 2 + run)
                 IN IF j <= Len(s) /\ s[j] = "." /\ DigitRun(s, j + 1) >= 2
                    THEN SubSeq(s, 1, j + 2) ELSE <<>>

\* str.replace("$", "").replace(",", "")
StripMoney(s) == SelectSeq(s, LAMBDA c : c # "$" /\ c # ",")

RECURSIVE DigitsValue(_)
DigitsValue(s) ==
    IF Len(s) = 0 THEN 0
    ELSE 10 * DigitsValue(SubSeq(s, 1, Len(s) - 1)) + DigitVal(s[Len(s)])

\* Decimal(text) of digits '.' one or two digits, as an exact count of cents.
DecimalCents(s) ==
    LET dot == CHOOSE i \in 1..Len(s) : s[i] = "."
        whole == SubSeq(s, 1, dot - 1)
        frac == SubSeq(s, dot + 1, Len(s))
    IN 100 * DigitsValue(whole)
       + (IF Len(frac) = 1 THEN 10 * DigitsValue(frac) ELSE DigitsValue(frac))

RECURSIVE IntDigits(_)
IntDigits(n) ==
    IF n < 10 THEN <<DigitChar(n)>>
    ELSE IntDigits(n \div 10) \o <<DigitChar(n % 10)>>

RECURSIVE Grouped(_)
Grouped(n) ==
    IF n < 1000 THEN IntDigits(n)
    ELSE Grouped(n \div 1000)
         \o <<",", DigitChar((n % 1000) \div 100),
              DigitChar((n % 100) \div 10), DigitChar(n % 10)>>

\* locale.currency(value, grouping=True) under en_US.UTF-8, value >= 0.
currency(cents) ==
    <<"$">> \o Grouped(cents \div 100)
    \o <<".", DigitChar((cents % 100) \div 10), DigitChar(cents % 10)>>

-----------------------------------------------------------------------------
(* Words, descriptions and the category enumeration. *)

NumericWords == {"100"}

\* str.upper() on the words of the model.
upper(w) == IF w = "walmart" THEN "WALMART" ELSE w

\* str.lower() on the category labels of the model.
lower(w) == IF w = "Food" THEN "food" ELSE w

EndsInLetter(w) == w \notin NumericWords

\* class ExpenseCategory: the values of the enumeration.
ExpenseCategory ==
    {"bills", "entertainment", "food", "groceries", "health", "insurance",
     "miscellaneous", "other", "personal care", "rent", "services", "shopping",
     "software", "subscriptions", "transportation", "unknown", "utilities"}

\* self.known_patterns, its entries over the words of the model.
known_patterns ==
    <<[pattern |-> "WALMART", category |-> "shopping"],
      [pattern |-> "TARGET", category |-> "shopping"],
      [pattern |-> "NETFLIX", category |-> "entertainment"]>>

\* re.search(pattern, description, re.IGNORECASE), a pattern being one word.
re_search(pattern, description) ==
    \E i \in 1..Len(description) : upper(description[i]) = upper(pattern)

\* The default confidence_threshold of predict_category, in hundredths.
confidence_threshold == 60

-----------------------------------------------------------------------------
(* TransactionClassifier.  A classifier is a record: the model and the      *)
(* vectorizer it holds ("None" or "fitted"), the two artifact files         *)
(* ("absent", "ok", or "corrupt" when pickle.load raises on them) and the   *)
(* training data file.  The fitted model's answer is the record ml.         *)

\* _prepare_training_data: the entries kept for fitting; an unreadable file
\* gives none, an entry with a category outside the enumeration is skipped.
prepare_training_data(c) ==
    IF ~c.training_data_file.exists THEN <<>>
    ELSE SelectSeq(c.training_data_file.entries,
                   LAMBDA e : lower(e.category) \in ExpenseCategory)

\* _save_model: both artifacts are written.
save_model(c) == [c EXCEPT !.model_file = "ok", !.vectorizer_file = "ok"]

\* train_and_save: the classifier afterwards, and the value returned.
train_and_save(c) ==
    IF prepare_training_data(c) = <<>>
    THEN [clf |-> c, ok |-> FALSE]
    ELSE [clf |-> save_model([c EXCEPT !.vectorizer = "fitted", !.model = "fitted"]),
          ok |-> TRUE]

\* A load that ignores the artifacts and always trains.
load_model_always_trains(c) == [clf |-> train_and_save(c).clf, raised |-> FALSE]

\* _load_model: the classifier afterwards, and whether the call raised.
load_model(c) ==
    IF c.model_file # "absent" /\ c.vectorizer_file # "absent"
    THEN IF c.model_file = "corrupt" THEN [clf |-> c, raised |-> TRUE]
         ELSE IF c.vectorizer_file = "corrupt"
              THEN [clf |-> [c EXCEPT !.model = "fitted"], raised |-> TRUE]
              ELSE [clf |-> [c EXCEPT !.model = "fitted", !.vectorizer = "fitted"],
                    raised |-> FALSE]
    ELSE [clf |-> train_and_save(c).clf, raised |-> FALSE]

\* The training data read by predict_category: {} when the file cannot be read.
training_dict(c) ==
    IF c.training_data_file.exists THEN c.training_data_file.entries ELSE <<>>

\* The first entry of the training data whose key matches, 0 when none does.
FirstMatch(entries, description) ==
    IF \E i \in 1..Len(entries) : re_search(entries[i].transaction, description)
    THEN CHOOSE i \in 1..Len(entries) :
            /\ re_search(entries[i].transaction, description)
            /\ \A j \in 1..(i - 1) : ~re_search(entries[j].transaction, description)
    ELSE 0

\* Step 3 of predict_category: the fitted model's answer against the threshold.
ml_prediction(c, m, threshold) ==
    IF c.model = "None" \/ c.vectorizer = "None"
    THEN [category |-> "other", confidence |-> 0]
    ELSE IF m.conf >= threshold
         THEN [category |-> m.label, confidence |-> m.conf]
         ELSE [category |-> "other", confidence |-> m.conf]

\* A predict_category that answers "other" whenever the call had to load.
predict_category_cold_other(c, m, description) ==
    IF c.model = "None" \/ c.vectorizer = "None"
    THEN [clf |-> load_model(c).clf, category |-> "other", confidence |-> 0,
          raised |-> load_model(c).raised]
    ELSE [clf |-> c,
          category |-> ml_prediction(c, m, confidence_threshold).category,
          confidence |-> ml_prediction(c, m, confidence_threshold).confidence,
          raised |-> FALSE]

\* predict_category(description): the classifier afterwards, the pair returned,
\* and whether the call raised instead of returning.
predict_category(c, m, description) ==
    LET loaded == IF c.model = "None" \/ c.vectorizer = "None"
                  THEN load_model(c)
                  ELSE [clf |-> c, raised |-> FALSE]
        c1 == loaded.clf
        hit == FirstMatch(training_dict(c1), description)
        guess == ml_prediction(c1, m, confidence_threshold)
    IN IF loaded.raised
       THEN [clf |-> c1, category |-> None, confidence |-> 0, raised |-> TRUE]
       ELSE IF hit # 0
            THEN [clf |-> c1, category |-> training_dict(c1)[hit].category,
                  confidence |-> 100, raised |-> FALSE]
            ELSE [clf |-> c1, category |-> guess.category,
                  confidence |-> guess.confidence, raised |-> FALSE]

\* categorize_transaction(description), called without vectorizer and model.
categorize_transaction(c, m, description) == predict_category(c, m, description)

\* re.sub(r"[^\w\s]", " ", text) and " ".join(text.split()) on one word: the
\* words that are left of it.
without_special(w) ==
    IF w = "#" THEN <<>>
    ELSE IF w = "#100" THEN <<"100">>
    ELSE <<w>>

RECURSIVE remove_special(_)
remove_special(text) ==
    IF text = <<>> THEN <<>>
    ELSE without_special(Head(text)) \o remove_special(Tail(text))

\* common_suffixes of clean_text, in the order of the list.
common_suffixes ==
    <<"\\d+", "#\\d+", "LLC", "INC", "CORP", "USA", "VA", "MD", "DC">>

\* The suffix pattern, without its leading \s+ and its $, matches the word.
suffix_match(suffix, w) ==
    IF suffix = "\\d+" THEN w \in NumericWords
    ELSE IF suffix = "#\\d+" THEN w = "#100"
    ELSE w = suffix

\* re.sub(suffix, "", text): the last word goes when the pattern matches it
\* and whitespace stands before it.
re_sub_suffix(suffix, text) ==
    IF Len(text) >= 2 /\ suffix_match(suffix, text[Len(text)])
    THEN SubSeq(text, 1, Len(text) - 1)
    ELSE text

\* for suffix in common_suffixes: text = re.sub(suffix, "", text), from the
\* i-th suffix on.
RECURSIVE strip_suffixes(_, _)
strip_suffixes(text, i) ==
    IF i > Len(common_suffixes) THEN text
    ELSE strip_suffixes(re_sub_suffix(common_suffixes[i], text), i + 1)

\* clean_text(text), a text being the sequence of its words.
clean_text(text) ==
    IF text = <<>> THEN <<>>
    ELSE strip_suffixes(
             remove_special([i \in 1..Len(text) |-> upper(text[i])]), 1)

\* The words that are keys of training data, in the order of sort_keys=True.
SortedKeys == <<"COFFEE", "STORE", "TARGET", "WALMART">>

\* A corrected record that is a dict with "transaction" and "category".
well_formed(desc) == desc.transaction # None /\ desc.category # None

\* The position of the key transaction in existing_data, 0 when it is no key.
\* A JSON list holds records, so no description is `in` it.
key_index(existing_data, form, transaction) ==
    IF form = "dict"
       /\ \E i \in 1..Len(existing_data) : existing_data[i].transaction = transaction
    THEN CHOOSE i \in 1..Len(existing_data) :
            existing_data[i].transaction = transaction
    ELSE 0

\* A loop that also inserts the corrected records whose description is no key.
update_existing_inserts(existing_data, form, descriptions_data, updates_made) ==
    [existing_data |->
        existing_data
        \o SelectSeq(descriptions_data,
               LAMBDA desc : /\ well_formed(desc)
                             /\ key_index(existing_data, form,
                                          desc.transaction) = 0),
     updates_made |-> TRUE]

\* A loop that gives every key the category of the last record that names it,
\* "unknown" too, and always reports an update.
update_existing_any_label(existing_data, form, descriptions_data, updates_made) ==
    [existing_data |->
        [i \in 1..Len(existing_data) |->
            LET named == {j \in 1..Len(descriptions_data) :
                            /\ form = "dict"
                            /\ well_formed(descriptions_data[j])
                            /\ descriptions_data[j].transaction
                               = existing_data[i].transaction}
            IN IF named = {} THEN existing_data[i]
               ELSE [existing_data[i] EXCEPT !.category =
                        descriptions_data[CHOOSE j \in named :
                                             \A k \in named : k <= j].category]],
     updates_made |-> TRUE]

\* The loop of lines 328-350 over descriptions_data: the data afterwards and
\* whether any category was overwritten.
RECURSIVE update_existing(_, _, _, _)
update_existing(existing_data, form, descriptions_data, updates_made) ==
    IF descriptions_data = <<>>
    THEN [existing_data |-> existing_data, updates_made |-> updates_made]
    ELSE LET desc == Head(descriptions_data)
             i == IF well_formed(desc)
                  THEN key_index(existing_data, form, desc.transaction) ELSE 0
         IN IF i # 0 /\ existing_data[i].category # desc.category
               /\ desc.category # "unknown"
            THEN update_existing(
                     [existing_data EXCEPT ![i].category = desc.category],
                     form, Tail(descriptions_data), TRUE)
            ELSE update_existing(existing_data, form, Tail(descriptions_data),
                                 updates_made)

\* json.dump(existing_data, f, indent=4, sort_keys=True): the entries by key.
sort_keys(existing_data) ==
    LET keys == SelectSeq(SortedKeys,
                   LAMBDA w : \E i \in 1..Len(existing_data) :
                                 existing_data[i].transaction = w)
    IN [k \in 1..Len(keys) |->
          existing_data[CHOOSE i \in 1..Len(existing_data) :
                           existing_data[i].transaction = keys[k]]]

\* save_descriptions(descriptions_data): the classifier afterwards, the value
\* returned, and whether the training data file was written (lines 353-355).
save_descriptions(c, descriptions_data) ==
    IF ~c.training_data_file.exists
    THEN [clf |-> c, returned |-> FALSE, written |-> FALSE]
    ELSE LET u == update_existing(c.training_data_file.entries,
                                  c.training_data_file.form,
                                  descriptions_data, FALSE)
         IN IF u.updates_made
            THEN [clf |-> [c EXCEPT !.training_data_file.entries =
                                        sort_keys(u.existing_data)],
                  returned |-> TRUE, written |-> TRUE]
            ELSE [clf |-> c, returned |-> TRUE, written |-> FALSE]

-----------------------------------------------------------------------------
(* Lines of a page text and the patterns that read them. *)

Holders == {"JANE DOE", "JOHN ROE"}

AccountNumber(h) == IF h = "JANE DOE" THEN "1234" ELSE "5678"

Line(kind, name, cont, desc, amount) ==
    [kind |-> kind, name |-> name, cont |-> cont, desc |-> desc, amount |-> amount]

\* "<NAME> #<ACCOUNT>: Transactions", with " (Continued)" after it when cont.
HolderLine(h, cont) == Line("holder", h, cont, <<>>, <<>>)
\* A line that holds "Transactions (Continued)" and names no holder.
MarkerLine == Line("marker", None, TRUE, <<>>, <<>>)
\* "Trans Date Post Date Description Amount"
ColumnsLine == Line("columns", None, FALSE, <<>>, <<>>)
\* "Jan 3 Jan 5 <description> <amount>"
RowLine(desc, amount) == Line("row", None, FALSE, desc, amount)
\* "<NAME> #<ACCOUNT>: Total Transactions <amount>"
TrailerLine(h, amount) == Line("trailer", h, FALSE, <<>>, amount)
\* Any other text.
NoiseLine == Line("noise", None, FALSE, <<>>, <<>>)
\* No line consumed yet on this page.
NoLine == Line("none", None, FALSE, <<>>, <<>>)

Amount4567 == <<"$", "4", "5", ".", "6", "7">>
Amount55 == <<"$", "5", ".", "5">>
Amount550 == <<"$", "5", ".", "5", "0">>
Amount5117 == <<"$", "5", "1", ".", "1", "7">>
Amount000 == <<"$", "0", ".", "0", "0">>

WalmartStore100 == <<"WALMART", "STORE", "100">>
WalmartStore == <<"walmart", "STORE">>
CoffeeShop == <<"COFFEE", "SHOP">>

RowLines ==
    {RowLine(WalmartStore100, Amount4567), RowLine(WalmartStore, Amount4567),
     RowLine(CoffeeShop, Amount55)}

TrailerAmounts == {Amount4567, Amount550, Amount5117, Amount000}

TrailerLines ==
    {TrailerLine(h, a) : h \in Holders, a \in TrailerAmounts}

HolderLines == {HolderLine(h, c) : h \in Holders, c \in BOOLEAN}

\* The lines that are no trailer, no holder header and no continuation marker.
OtherLines == {ColumnsLine, NoiseLine} \cup RowLines

Lines == HolderLines \cup TrailerLines \cup {MarkerLine} \cup OtherLines

\* name_pattern.match(line)
name_match(l) == l.kind = "holder"

\* user_transactions_done.match(line)
done_match(l) == l.kind = "trailer" /\ TrailerAmountMatch(l.amount) # <<>>

\* "Transactions (Continued)" in line
has_continued(l) == l.kind = "marker" \/ (l.kind = "holder" /\ l.cont)

\* line == header
is_header(l) == l.kind = "columns"

\* The description group ([\w\s\*]+.*?[a-zA-Z]) must end in a letter just
\* before the blank that precedes the amount.
description_match(desc) == Len(desc) > 0 /\ EndsInLetter(desc[Len(desc)])

\* transaction_pattern.match(line)
transaction_match(l) ==
    l.kind = "row" /\ description_match(l.desc) /\ RowAmountMatch(l.amount) # <<>>

-----------------------------------------------------------------------------
(* parse_capitalone_transactions_text: the body of `for line in lines`, as  *)
(* operators on a record s of the document, the locals, the classifier and  *)
(* how the iteration ended: "loop" (next line), "break", "exit" (exit(1))   *)
(* or "raise" (an exception).                                               *)

\* What the session logged when it ended early: which check failed and, for a
\* failed comparison, the two totals of lines 632-633.
Failure(why, found, reported) ==
    [why |-> why, found |-> found, reported |-> reported]

NoFailure == Failure(None, <<>>, <<>>)

\* logger.error(...) and exit(1)
Exit(s, why) == [s EXCEPT !.status = "exit", !.err = Failure(why, <<>>, <<>>)]

\* An exception leaves the function.
Raise(s, why) == [s EXCEPT !.status = "raise", !.err = Failure(why, <<>>, <<>>)]

\* A comparison that accepts every reported total.
totals_differ_never(total_amount_from_data, statement_final) == FALSE

\* The comparison of lines 616-628: both totals through locale.currency.
totals_differ(total_amount_from_data, statement_final) ==
    currency(total_amount_from_data) # currency(DecimalCents(statement_final))

\* A check that lets an empty total through.
total_is_zero_never(total) == FALSE

\* Lines 609-611: an empty total is an error.
total_is_zero(total) == total = 0

\* A close that verifies the block and leaves the queue as it is.
close_block_keeps_queue(s, this_user) ==
    [s EXCEPT !.data[this_user].verified_amounts = TRUE,
              !.processing_transactions = FALSE,
              !.status = "break"]

\* Lines 635-642: the block of this_user is verified and the queue cleared.
close_block(s, this_user) ==
    [s EXCEPT !.data[this_user].verified_amounts = TRUE,
              !.current_queue = None,
              !.processing_transactions = FALSE,
              !.status = "break"]

\* if done_match: (lines 601-642)
done_branch(s, l) ==
    LET this_user == l.name
        statement_final == StripMoney(TrailerAmountMatch(l.amount))
    IN IF s.have_continuation THEN Exit(s, "continuation")
       ELSE IF this_user \notin DOMAIN s.data THEN Raise(s, "KeyError")
       ELSE IF total_is_zero(s.data[this_user].transactions_total_amount)
            THEN Exit(s, "zero_total")
       ELSE IF totals_differ(s.data[this_user].transactions_total_amount,
                             statement_final)
            THEN [s EXCEPT
                    !.status = "exit",
                    !.err = Failure("mismatch",
                              currency(s.data[this_user].transactions_total_amount),
                              currency(DecimalCents(statement_final)))]
       ELSE close_block(s, this_user)

\* A transactions_count that Python takes for false: [] or 0.
FalsyCount(c) == c = <<>> \/ c = <<0>>

\* An initialisation that starts the holder's entry afresh on every header.
initialized_account_afresh(d, name, account) ==
    [account |-> account, verified_amounts |-> FALSE,
     transactions_count |-> <<>>, transactions |-> <<>>,
     transactions_total_amount |-> 0]

\* Lines 656-668 on the entry of current_name.
initialized_account(d, name, account) ==
    IF name \notin DOMAIN d
    THEN [account |-> account, verified_amounts |-> FALSE,
          transactions_count |-> <<>>, transactions |-> <<>>,
          transactions_total_amount |-> 0]
    ELSE [d[name] EXCEPT
            !.transactions_count = IF FalsyCount(@) THEN <<>> ELSE @]

\* if name_match: (lines 645-669)
name_branch(s, l) ==
    LET name == l.name
        account == <<l.name, AccountNumber(l.name)>>
    IN [s EXCEPT
          !.current_name = name,
          !.current_account = account,
          !.current_queue = name,
          !.data = [h \in DOMAIN s.data \cup {name} |->
                      IF h = name THEN initialized_account(s.data, name, account)
                      ELSE s.data[h]],
          !.processing_transactions = FALSE]

\* elif "Transactions (Continued)" in line: (lines 671-677)
continued_branch(s, l) ==
    [s EXCEPT !.processing_transactions = TRUE, !.have_continuation = TRUE]

\* elif line == header and current_name: (lines 679-686)
header_branch(s, l) ==
    [s EXCEPT !.processing_transactions = TRUE, !.have_continuation = FALSE]

\* An entry that stores the amount without its cents.
transaction_entry_whole_dollars(l, category, amount_decimal) ==
    [transaction_date |-> "Jan 3", transaction_category |-> category,
     post_date |-> "Jan 5", description |-> l.desc,
     amount |-> currency(amount_decimal - (amount_decimal % 100))]

\* The entry appended for a matched row (lines 714-722).
transaction_entry(l, category, amount_decimal) ==
    [transaction_date |-> "Jan 3", transaction_category |-> category,
     post_date |-> "Jan 5", description |-> l.desc,
     amount |-> currency(amount_decimal)]

\* A discard that ends the session on the unmatched line.
discard_line_fatal(s, l) == Exit(s, "unmatched_line")

\* Lines 694-697: a line the row pattern does not match is logged at debug
\* level and dropped.
discard_line(s, l) == s

\* elif current_name and processing_transactions: (lines 688-733)
row_branch(s, l, m) ==
    LET s1 == [s EXCEPT !.have_continuation = FALSE]
        name == s.current_name
        ct == s.transaction_ct + 1
        p == categorize_transaction(s.clf, m, l.desc)
        amount_decimal == DecimalCents(StripMoney(RowAmountMatch(l.amount)))
        counted == [s1 EXCEPT !.processing_transactions = TRUE,
                              !.transaction_ct = ct,
                              !.data[name].transactions_count = <<ct>>,
                              !.clf = p.clf]
    IN IF ~transaction_match(l) THEN discard_line(s1, l)
       ELSE IF p.raised THEN Raise(counted, "classifier")
       ELSE [counted EXCEPT
               !.data[name].transactions =
                   Append(@, transaction_entry(l, p.category, amount_decimal)),
               !.data[name].transactions_total_amount = @ + amount_decimal]

\* Lines 593-594: the holder in the queue becomes current_name.
from_queue(s) ==
    IF s.current_queue # None THEN [s EXCEPT !.current_name = s.current_queue]
    ELSE s

Branch(s, l) ==
    IF done_match(l) THEN "done"
    ELSE IF name_match(l) THEN "name"
    ELSE IF has_continued(l) THEN "continued"
    ELSE IF is_header(l) /\ from_queue(s).current_name # None THEN "header"
    ELSE IF from_queue(s).current_name # None /\ s.processing_transactions
         THEN "row"
    ELSE "skip"

\* One iteration of the loop on line l (lines 590-733).
loop_body(s, l, m) ==
    LET s0 == from_queue(s)
        b == Branch(s, l)
    IN IF b = "done" THEN done_branch(s0, l)
       ELSE IF b = "name" THEN name_branch(s0, l)
       ELSE IF b = "continued" THEN continued_branch(s0, l)
       ELSE IF b = "header" THEN header_branch(s0, l)
       ELSE IF b = "row" THEN row_branch(s0, l, m)
       ELSE s0

-----------------------------------------------------------------------------
(* The classifier and its files as a session finds them. *)

Entry(transaction, category) == [transaction |-> transaction, category |-> category]

\* No training data file.
NoCorpus == [exists |-> FALSE, form |-> "dict", entries |-> <<>>]

\* A training data file that holds a JSON object: description -> category.
Corpus(entries) == [exists |-> TRUE, form |-> "dict", entries |-> entries]

\* A training data file that holds a JSON list of records.
ListCorpus(entries) == [exists |-> TRUE, form |-> "list", entries |-> entries]

\* TransactionClassifier.__init__ (model and vectorizer start as None).
Classifier(model_file, vectorizer_file, training_data_file) ==
    [model |-> None, vectorizer |-> None, model_file |-> model_file,
     vectorizer_file |-> vectorizer_file,
     training_data_file |-> training_data_file]

NoResult ==
    [called |-> FALSE, description |-> <<>>, category |-> None,
     confidence |-> 0, raised |-> FALSE, before |-> None]

NoTrial == [kind |-> "none"]

\* No concurrent caller, and no other process.
NoThreads == <<>>

NoReader == [pc |-> None, model |-> None, vectorizer |-> None]

\* No call of clean_text yet.
NoText == [given |-> <<>>, previous |-> <<>>, value |-> <<>>, passes |-> 0]

\* No call of train_and_save or save_descriptions yet.
NoCall ==
    [op |-> None, descriptions_data |-> <<>>, returned |-> FALSE,
     written |-> FALSE]

\* The classifiers the parsing sessions run with.
SessionClassifiers ==
    {Classifier("absent", "absent", Corpus(<<Entry("WALMART", "shopping")>>)),
     Classifier("ok", "ok", NoCorpus)}

SessionModels == {[label |-> "groceries", conf |-> 90]}

-----------------------------------------------------------------------------
(* analyze_capitalone_pdf: one session over the pages of a statement. *)

\* The record the loop body works on, from the variables.
ParserState ==
    [data |-> data, current_queue |-> current_queue,
     current_name |-> current_name, current_account |-> current_account,
     have_continuation |-> have_continuation,
     processing_transactions |-> processing_transactions,
     transaction_ct |-> transaction_ct, clf |-> clf,
     status |-> "loop", err |-> err]

Init ==
    /\ data = <<>>
    /\ current_queue = None
    /\ current_name = None
    /\ current_account = None
    /\ have_continuation = FALSE
    /\ processing_transactions = FALSE
    /\ transaction_ct = -2
    /\ pc = "between"
    /\ err = NoFailure
    /\ line = NoLine
    /\ page_num = 0
    /\ unread = 0
    /\ lines_left = MaxLines
    /\ marker_open = FALSE
    /\ clf \in SessionClassifiers
    /\ ml \in SessionModels
    /\ result = NoResult
    /\ ret = NoCall
    /\ threads = NoThreads
    /\ reader = NoReader
    /\ training_runs = {}
    /\ cleaned = NoText
    /\ trial = NoTrial

\* The call of line 554 on the next page: the locals of lines 570-588.
BeginPage ==
    /\ pc = "between"
    /\ page_num < MaxPages
    /\ page_num' = page_num + 1
    /\ \E n \in 0..lines_left : unread' = n /\ lines_left' = lines_left - n
    /\ current_name' = None
    /\ current_account' = None
    /\ have_continuation' = FALSE
    /\ processing_transactions' = FALSE
    /\ transaction_ct' = -2
    /\ line' = NoLine
    /\ pc' = "inpage"
    /\ UNCHANGED <<data, current_queue, err, marker_open, clf, ml, result, ret, trial, thread_vars, cleaned>>

\* The loop consumes line l; b is the branch of the body that l takes.
Consume(l, b) ==
    /\ pc = "inpage"
    /\ unread > 0
    /\ Branch(ParserState, l) = b
    /\ \E t \in {loop_body(ParserState, l, ml)} :
          /\ data' = t.data
          /\ current_queue' = t.current_queue
          /\ current_name' = t.current_name
          /\ current_account' = t.current_account
          /\ have_continuation' = t.have_continuation
          /\ processing_transactions' = t.processing_transactions
          /\ transaction_ct' = t.transaction_ct
          /\ clf' = t.clf
          /\ err' = t.err
          /\ pc' = IF t.status = "loop" THEN "inpage"
                   ELSE IF t.status = "break" THEN "between"
                   ELSE "exited"
          /\ marker_open' = IF b \in {"continued", "header", "row"}
                            THEN t.have_continuation ELSE marker_open
    /\ line' = l
    /\ unread' = unread - 1
    /\ UNCHANGED <<page_num, lines_left, ml, result, ret, trial, thread_vars, cleaned>>

RECURSIVE RowsRecorded(_)
RowsRecorded(d) ==
    IF DOMAIN d = {} THEN 0
    ELSE LET h == CHOOSE x \in DOMAIN d : TRUE
         IN Len(d[h].transactions)
            + RowsRecorded([x \in DOMAIN d \ {h} |-> d[x]])

TrailerStep == \E l \in TrailerLines : Consume(l, "done")

HolderStep == \E l \in HolderLines : Consume(l, "name")

ContinuedStep == Consume(MarkerLine, "continued")

ColumnsStep == Consume(ColumnsLine, "header")

RowStep ==
    \E l \in OtherLines :
        /\ Branch(ParserState, l) = "row"
        /\ transaction_match(l) => RowsRecorded(data) < MaxRows
        /\ Consume(l, "row")

SkipStep == \E l \in OtherLines : Consume(l, "skip")

\* The loop ran out of lines: return data (line 735).
EndPage ==
    /\ pc = "inpage"
    /\ unread = 0
    /\ pc' = "between"
    /\ UNCHANGED <<data, current_queue, current_name, current_account,
                   have_continuation, processing_transactions, transaction_ct,
                   err, line, page_num, unread, lines_left, marker_open, clf,
                   ml, result, ret, trial, thread_vars, cleaned>>

\* No page is left: lines 557-561.
Finish ==
    /\ pc = "between"
    /\ IF DOMAIN data # {}
       THEN pc' = "returned" /\ err' = err
       ELSE pc' = "exited" /\ err' = Failure("empty", <<>>, <<>>)
    /\ UNCHANGED <<data, current_queue, current_name, current_account,
                   have_continuation, processing_transactions, transaction_ct,
                   line, page_num, unread, lines_left, marker_open, clf, ml,
                   result, ret, trial, thread_vars, cleaned>>

Next ==
    \/ BeginPage
    \/ TrailerStep
    \/ HolderStep
    \/ ContinuedStep
    \/ ColumnsStep
    \/ RowStep
    \/ SkipStep
    \/ EndPage
    \/ Finish

Spec == Init /\ [][Next]_vars

-----------------------------------------------------------------------------
(* The same code run in one piece on a statement given as a sequence of     *)
(* page texts, each a sequence of lines.                                    *)

\* The locals of lines 570-588 at the start of a call.
page_call(s) ==
    [s EXCEPT !.current_name = None, !.current_account = None,
              !.have_continuation = FALSE, !.transaction_ct = -2,
              !.processing_transactions = FALSE, !.status = "loop"]

\* for line in lines: ... until the lines run out, a break or an error.
RECURSIVE parse_lines(_, _, _)
parse_lines(s, lines, m) ==
    IF lines = <<>> THEN s
    ELSE LET t == loop_body(s, Head(lines), m)
         IN IF t.status = "loop" THEN parse_lines(t, Tail(lines), m) ELSE t

\* parse_capitalone_transactions_text(pdf_text, data, page_num)
parse_capitalone_transactions_text(s, pdf_text, m) ==
    parse_lines(page_call(s), pdf_text, m)

\* for page_num, page in enumerate(pdf.pages): ... (lines 549-556)
RECURSIVE parse_pages(_, _, _)
parse_pages(s, pages, m) ==
    IF pages = <<>> THEN s
    ELSE LET t == parse_capitalone_transactions_text(s, Head(pages), m)
         IN IF t.status \in {"exit", "raise"} THEN t
            ELSE parse_pages(t, Tail(pages), m)

\* analyze_capitalone_pdf(file_path) on a file with these pages: the record
\* the session ends with, status "returned" when a document is returned.
analyze_capitalone_pdf(pages, c, m) ==
    LET s0 == [data |-> <<>>, current_queue |-> None, current_name |-> None,
               current_account |-> None, have_continuation |-> FALSE,
               processing_transactions |-> FALSE, transaction_ct |-> -2,
               clf |-> c, status |-> "loop", err |-> NoFailure]
        t == parse_pages(s0, pages, m)
    IN IF t.status \in {"exit", "raise"} THEN t
       ELSE IF DOMAIN t.data # {} THEN [t EXCEPT !.status = "returned"]
       ELSE Exit(t, "empty")

\* What a caller sees of a finished session.
Outcome(t) == [status |-> t.status, err |-> t.err, data |-> t.data]

NoOutcome == [status |-> "none", err |-> NoFailure, data |-> <<>>]

\* The statement of the worked example: a header, the column header and one
\* row on page 1, the trailer on page 2.
ExampleStatement ==
    <<<<HolderLine("JANE DOE", FALSE), ColumnsLine,
        RowLine(WalmartStore100, Amount4567)>>,
      <<TrailerLine("JANE DOE", Amount4567)>>>>

\* One holder's block on a single page: header, column header, rows, trailer.
SinglePage(h, rows, total) ==
    <<<<HolderLine(h, FALSE), ColumnsLine>> \o rows \o <<TrailerLine(h, total)>>>>

\* The same block with its rows split after the k-th, k < Len(rows): the second
\* page starts with the continuation line `marker`.
SplitPages(h, rows, k, marker, total) ==
    <<<<HolderLine(h, FALSE), ColumnsLine>> \o SubSeq(rows, 1, k),
      <<marker>> \o SubSeq(rows, k + 1, Len(rows)) \o <<TrailerLine(h, total)>>>>

\* The rows a block can hold, at most MaxRows of them.
RowSeqs == UNION {[1..n -> RowLines] : n \in 0..MaxRows}

\* The amounts of the rows that match, summed, in cents.
RECURSIVE RowsTotal(_)
RowsTotal(rows) ==
    IF rows = <<>> THEN 0
    ELSE (IF transaction_match(Head(rows))
          THEN DecimalCents(StripMoney(RowAmountMatch(Head(rows).amount)))
          ELSE 0)
         + RowsTotal(Tail(rows))

\* The continuation lines of a second page: with or without the holder's name.
ContinuationLines(h) == {MarkerLine, HolderLine(h, TRUE)}

\* The statements the runs are drawn from: `first` and `second` are two files.
Trial(kind, first, second) ==
    [kind |-> kind, first |-> first, second |-> second,
     out_first |-> NoOutcome, out_second |-> NoOutcome]

ExampleTrials == {Trial("example", ExampleStatement, ExampleStatement)}

SplitTrials ==
    UNION {{Trial("split",
                  SinglePage("JANE DOE", rows, currency(RowsTotal(rows))),
                  SplitPages("JANE DOE", rows, k, marker,
                             currency(RowsTotal(rows)))) :
               k \in 0..(Len(rows) - 1),
               marker \in ContinuationLines("JANE DOE")} :
           rows \in RowSeqs \ {<<>>}}

\* The same file parsed twice.
RepeatTrials ==
    {Trial("repeat", ExampleStatement, ExampleStatement)}
    \cup {Trial("repeat",
                SinglePage("JANE DOE", rows, currency(RowsTotal(rows))),
                SinglePage("JANE DOE", rows, currency(RowsTotal(rows)))) :
             rows \in RowSeqs \ {<<>>}}

\* The classifiers and models a run can meet.
TrialClassifiers ==
    {Classifier(mf, vf, td) :
        mf \in {"absent", "ok"}, vf \in {"absent", "ok"},
        td \in {NoCorpus, Corpus(<<>>), Corpus(<<Entry("WALMART", "shopping")>>)}}

TrialModels == {[label |-> "groceries", conf |-> 90], [label |-> "shopping", conf |-> 30]}

InitTrials ==
    /\ data = <<>>
    /\ current_queue = None
    /\ current_name = None
    /\ current_account = None
    /\ have_continuation = FALSE
    /\ processing_transactions = FALSE
    /\ transaction_ct = -2
    /\ pc = "between"
    /\ err = NoFailure
    /\ line = NoLine
    /\ page_num = 0
    /\ unread = 0
    /\ lines_left = 0
    /\ marker_open = FALSE
    /\ clf \in TrialClassifiers
    /\ ml \in TrialModels
    /\ result = NoResult
    /\ ret = NoCall
    /\ threads = NoThreads
    /\ reader = NoReader
    /\ training_runs = {}
    /\ cleaned = NoText
    /\ trial \in ExampleTrials \cup SplitTrials \cup RepeatTrials

\* A fresh session on the first file; the module's classifier and its files
\* stay as the session leaves them.
AnalyzeFirst ==
    /\ trial.out_first = NoOutcome
    /\ \E t \in {analyze_capitalone_pdf(trial.first, clf, ml)} :
          /\ trial' = [trial EXCEPT !.out_first = Outcome(t)]
          /\ clf' = t.clf
    /\ UNCHANGED <<parser_vars, ml, result, ret, thread_vars, cleaned>>

\* A fresh session on the second file.
AnalyzeSecond ==
    /\ trial.out_second = NoOutcome
    /\ \E t \in {analyze_capitalone_pdf(trial.second, clf, ml)} :
          /\ trial' = [trial EXCEPT !.out_second = Outcome(t)]
          /\ clf' = t.clf
    /\ UNCHANGED <<parser_vars, ml, result, ret, thread_vars, cleaned>>

\* A new process: the module is imported again (classifier =
\* TransactionClassifier()), the files are as they were left.
Restart ==
    /\ clf.model # None \/ clf.vectorizer # None
    /\ clf' = [clf EXCEPT !.model = None, !.vectorizer = None]
    /\ UNCHANGED <<parser_vars, ml, result, ret, thread_vars, cleaned, trial>>

NextTrials == AnalyzeFirst \/ AnalyzeSecond \/ Restart

SpecTrials == InitTrials /\ [][NextTrials]_vars

-----------------------------------------------------------------------------
(* The classifier on its own: calls of predict_category on one instance. *)

Descriptions == {WalmartStore100, WalmartStore, CoffeeShop}

ArtifactStates == {"absent", "ok", "corrupt"}

TrainingFiles ==
    {NoCorpus, Corpus(<<>>),
     Corpus(<<Entry("WALMART", "shopping")>>),
     Corpus(<<Entry("STORE", "food"), Entry("WALMART", "shopping")>>),
     Corpus(<<Entry("COFFEE", "coffee")>>),
     Corpus(<<Entry("COFFEE", "Food")>>),
     Corpus(<<Entry("COFFEE", "coffee"), Entry("WALMART", "shopping")>>),
     Corpus(<<Entry("WALMART", "shopping"), Entry("STORE", "food")>>),
     ListCorpus(<<Entry("COFFEE", "coffee"), Entry("WALMART", "shopping")>>)}

\* The corrected records a review hands to save_descriptions; the last one
\* lacks its "category".
CorrectedRecords ==
    {Entry("WALMART", "groceries"), Entry("WALMART", "unknown"),
     Entry("WALMART", "shopping"), Entry("TARGET", "shopping"),
     Entry("COFFEE", None)}

MaxRecords == 2

DescriptionsData ==
    UNION {[1..n -> CorrectedRecords] : n \in 0..MaxRecords}

Models ==
    {[label |-> "groceries", conf |-> 90], [label |-> "shopping", conf |-> 60],
     [label |-> "food", conf |-> 30]}

InitClassify ==
    /\ data = <<>>
    /\ current_queue = None
    /\ current_name = None
    /\ current_account = None
    /\ have_continuation = FALSE
    /\ processing_transactions = FALSE
    /\ transaction_ct = -2
    /\ pc = "between"
    /\ err = NoFailure
    /\ line = NoLine
    /\ page_num = 0
    /\ unread = 0
    /\ lines_left = 0
    /\ marker_open = FALSE
    /\ clf \in {Classifier(mf, vf, td) :
                  mf \in ArtifactStates, vf \in ArtifactStates,
                  td \in TrainingFiles}
    /\ ml \in Models
    /\ result = NoResult
    /\ ret = NoCall
    /\ threads = NoThreads
    /\ reader = NoReader
    /\ training_runs = {}
    /\ cleaned = NoText
    /\ trial = NoTrial

\* classification.predict_category(description) on the module's classifier.
PredictCategory ==
    \E description \in Descriptions :
        \E p \in {predict_category(clf, ml, description)} :
            /\ clf' = p.clf
            /\ result' = [called |-> TRUE, description |-> description,
                          category |-> p.category, confidence |-> p.confidence,
                          raised |-> p.raised, before |-> clf]
            /\ UNCHANGED <<parser_vars, ml, ret, trial, thread_vars, cleaned>>

\* classification.train_and_save() on the module's classifier.
TrainAndSave ==
    \E t \in {train_and_save(clf)} :
        /\ clf' = t.clf
        /\ ret' = [op |-> "train_and_save", descriptions_data |-> <<>>,
                   returned |-> t.ok, written |-> FALSE]
        /\ UNCHANGED <<parser_vars, ml, result, trial, thread_vars, cleaned>>

\* classification.save_descriptions(file_path, descriptions) on the module's
\* classifier.
SaveDescriptions ==
    \E descriptions_data \in DescriptionsData :
        \E u \in {save_descriptions(clf, descriptions_data)} :
            /\ clf' = u.clf
            /\ ret' = [op |-> "save_descriptions",
                       descriptions_data |-> descriptions_data,
                       returned |-> u.returned, written |-> u.written]
            /\ UNCHANGED <<parser_vars, ml, result, trial, thread_vars, cleaned>>

NextClassify == PredictCategory \/ TrainAndSave

\* A review session, as cli.py runs it: corrections are saved with
\* save_descriptions and the model is trained again with train_and_save.
InitFeedback ==
    /\ data = <<>>
    /\ current_queue = None
    /\ current_name = None
    /\ current_account = None
    /\ have_continuation = FALSE
    /\ processing_transactions = FALSE
    /\ transaction_ct = -2
    /\ pc = "between"
    /\ err = NoFailure
    /\ line = NoLine
    /\ page_num = 0
    /\ unread = 0
    /\ lines_left = 0
    /\ marker_open = FALSE
    /\ clf \in {Classifier(f, f, td) : f \in {"absent", "ok"}, td \in TrainingFiles}
    /\ ml \in SessionModels
    /\ result = NoResult
    /\ ret = NoCall
    /\ threads = NoThreads
    /\ reader = NoReader
    /\ training_runs = {}
    /\ cleaned = NoText
    /\ trial = NoTrial

NextFeedback == SaveDescriptions \/ TrainAndSave

SpecFeedback == InitFeedback /\ [][NextFeedback]_vars

SpecClassify == InitClassify /\ [][NextClassify]_vars

-----------------------------------------------------------------------------
(* clean_text on its own: a description is cleaned, and what comes back is  *)
(* cleaned again.                                                           *)

MaxWords == 3

MaxPasses == 2

\* The words of the descriptions that are cleaned.
TextWords == {"walmart", "STORE", "100", "#", "#100", "LLC", "INC", "VA"}

Texts == UNION {[1..n -> TextWords] : n \in 0..MaxWords}

InitClean ==
    /\ data = <<>>
    /\ current_queue = None
    /\ current_name = None
    /\ current_account = None
    /\ have_continuation = FALSE
    /\ processing_transactions = FALSE
    /\ transaction_ct = -2
    /\ pc = "between"
    /\ err = NoFailure
    /\ line = NoLine
    /\ page_num = 0
    /\ unread = 0
    /\ lines_left = 0
    /\ marker_open = FALSE
    /\ clf \in SessionClassifiers
    /\ ml \in SessionModels
    /\ result = NoResult
    /\ ret = NoCall
    /\ threads = NoThreads
    /\ reader = NoReader
    /\ training_runs = {}
    /\ \E t \in Texts :
          cleaned = [given |-> t, previous |-> t, value |-> t, passes |-> 0]
    /\ trial = NoTrial

\* classification.clean_text(text) on the text the last pass returned.
CleanText ==
    /\ cleaned.passes < MaxPasses
    /\ cleaned' = [cleaned EXCEPT !.previous = cleaned.value,
                                  !.value = clean_text(cleaned.value),
                                  !.passes = @ + 1]
    /\ UNCHANGED <<parser_vars, clf, ml, result, ret, trial, thread_vars>>

NextClean == CleanText

SpecClean == InitClean /\ [][NextClean]_vars

-----------------------------------------------------------------------------
(* Concurrent callers.  Two threads call into the module's one classifier  *)
(* and a second process loads the artifact files with _load_model; each     *)
(* step is one statement of predict_category, _load_model, train_and_save   *)
(* or _save_model.  An artifact, in a file or held by an instance, is named *)
(* by the run it came from: "old" was there before, "new" is what training  *)
(* fits now; a file opened with "wb" and not yet dumped is "partial".  A    *)
(* save that is interrupted is a thread that takes no further step.         *)

Threads == {1, 2}

Thread(at, op) == [pc |-> at, op |-> op]

\* The training data the concurrent callers find.
ThreadCorpora == {NoCorpus, Corpus(<<Entry("WALMART", "shopping")>>)}

InitThreads ==
    /\ data = <<>>
    /\ current_queue = None
    /\ current_name = None
    /\ current_account = None
    /\ have_continuation = FALSE
    /\ processing_transactions = FALSE
    /\ transaction_ct = -2
    /\ pc = "between"
    /\ err = NoFailure
    /\ line = NoLine
    /\ page_num = 0
    /\ unread = 0
    /\ lines_left = 0
    /\ marker_open = FALSE
    /\ clf \in {Classifier(f, f, td) : f \in {"absent", "old"}, td \in ThreadCorpora}
    /\ ml \in SessionModels
    /\ result = NoResult
    /\ ret = NoCall
    /\ threads = [t \in Threads |-> Thread("idle", None)]
    /\ reader = [pc |-> "idle", model |-> None, vectorizer |-> None]
    /\ training_runs = {}
    /\ cleaned = NoText
    /\ trial = NoTrial

\* What the steps of the callers leave alone.
thread_frame == <<parser_vars, ml, result, ret, cleaned, trial>>

\* predict_category, line 213: load unless a model and a vectorizer are held.
CallPredict(t) ==
    /\ threads[t].pc = "idle"
    /\ threads' = [threads EXCEPT ![t] =
                      Thread(IF clf.model = None \/ clf.vectorizer = None
                             THEN "load_model" ELSE "done", "predict")]
    /\ UNCHANGED <<clf, reader, training_runs, thread_frame>>

\* classification.train_and_save(), as cli.py calls it.
CallTrain(t) ==
    /\ threads[t].pc = "idle"
    /\ threads' = [threads EXCEPT ![t] = Thread("train_and_save", "train")]
    /\ UNCHANGED <<clf, reader, training_runs, thread_frame>>

\* _load_model, line 77: both files exist, or else train (line 83).
CheckFiles(t) ==
    /\ threads[t].pc = "load_model"
    /\ threads' = [threads EXCEPT ![t].pc =
                      IF clf.model_file # "absent" /\ clf.vectorizer_file # "absent"
                      THEN "open_model" ELSE "train_and_save"]
    /\ UNCHANGED <<clf, reader, training_runs, thread_frame>>

\* _load_model, lines 78-79: pickle.load raises on a partial file.
ReadModel(t) ==
    /\ threads[t].pc = "open_model"
    /\ IF clf.model_file \in {"partial", "absent"}
       THEN threads' = [threads EXCEPT ![t].pc = "raised"] /\ clf' = clf
       ELSE /\ threads' = [threads EXCEPT ![t].pc = "open_vectorizer"]
            /\ clf' = [clf EXCEPT !.model = clf.model_file]
    /\ UNCHANGED <<reader, training_runs, thread_frame>>

\* _load_model, lines 80-81.
ReadVectorizer(t) ==
    /\ threads[t].pc = "open_vectorizer"
    /\ IF clf.vectorizer_file \in {"partial", "absent"}
       THEN threads' = [threads EXCEPT ![t].pc = "raised"] /\ clf' = clf
       ELSE /\ threads' = [threads EXCEPT ![t].pc = "done"]
            /\ clf' = [clf EXCEPT !.vectorizer = clf.vectorizer_file]
    /\ UNCHANGED <<reader, training_runs, thread_frame>>

\* train_and_save, lines 91-94: a training run starts; with nothing to fit on
\* it ends at once and returns False.
PrepareData(t) ==
    /\ threads[t].pc = "train_and_save"
    /\ training_runs' = training_runs \cup {t}
    /\ threads' = [threads EXCEPT ![t].pc =
                      IF prepare_training_data(clf) = <<>>
                      THEN "done" ELSE "fit_vectorizer"]
    /\ UNCHANGED <<clf, reader, thread_frame>>

\* train_and_save, lines 97-100.
FitVectorizer(t) ==
    /\ threads[t].pc = "fit_vectorizer"
    /\ clf' = [clf EXCEPT !.vectorizer = "new"]
    /\ threads' = [threads EXCEPT ![t].pc = "fit_model"]
    /\ UNCHANGED <<reader, training_runs, thread_frame>>

\* train_and_save, lines 103-104.
FitModel(t) ==
    /\ threads[t].pc = "fit_model"
    /\ clf' = [clf EXCEPT !.model = "new"]
    /\ threads' = [threads EXCEPT ![t].pc = "open_model_wb"]
    /\ UNCHANGED <<reader, training_runs, thread_frame>>

\* _save_model, line 200: open(self.model_file, "wb") truncates the file.
OpenModelForWrite(t) ==
    /\ threads[t].pc = "open_model_wb"
    /\ clf' = [clf EXCEPT !.model_file = "partial"]
    /\ threads' = [threads EXCEPT ![t].pc = "dump_model"]
    /\ UNCHANGED <<reader, training_runs, thread_frame>>

\* _save_model, line 201: pickle.dump(self.model, f) and the file is closed.
DumpModel(t) ==
    /\ threads[t].pc = "dump_model"
    /\ clf' = [clf EXCEPT !.model_file = clf.model]
    /\ threads' = [threads EXCEPT ![t].pc = "open_vectorizer_wb"]
    /\ UNCHANGED <<reader, training_runs, thread_frame>>

\* _save_model, line 202.
OpenVectorizerForWrite(t) ==
    /\ threads[t].pc = "open_vectorizer_wb"
    /\ clf' = [clf EXCEPT !.vectorizer_file = "partial"]
    /\ threads' = [threads EXCEPT ![t].pc = "dump_vectorizer"]
    /\ UNCHANGED <<reader, training_runs, thread_frame>>

\* _save_model, line 203.
DumpVectorizer(t) ==
    /\ threads[t].pc = "dump_vectorizer"
    /\ clf' = [clf EXCEPT !.vectorizer_file = clf.vectorizer]
    /\ threads' = [threads EXCEPT ![t].pc = "done"]
    /\ UNCHANGED <<reader, training_runs, thread_frame>>

\* The other process, _load_model line 77 on its own instance.
ReaderCheckFiles ==
    /\ reader.pc = "idle"
    /\ reader' = [reader EXCEPT !.pc =
                     IF clf.model_file # "absent" /\ clf.vectorizer_file # "absent"
                     THEN "open_model" ELSE "train_and_save"]
    /\ UNCHANGED <<clf, threads, training_runs, thread_frame>>

\* The other process, lines 78-79.
ReaderReadModel ==
    /\ reader.pc = "open_model"
    /\ reader' = IF clf.model_file \in {"partial", "absent"}
                 THEN [reader EXCEPT !.pc = "raised"]
                 ELSE [reader EXCEPT !.pc = "open_vectorizer",
                                     !.model = clf.model_file]
    /\ UNCHANGED <<clf, threads, training_runs, thread_frame>>

\* The other process, lines 80-81.
ReaderReadVectorizer ==
    /\ reader.pc = "open_vectorizer"
    /\ reader' = IF clf.vectorizer_file \in {"partial", "absent"}
                 THEN [reader EXCEPT !.pc = "raised"]
                 ELSE [reader EXCEPT !.pc = "done",
                                     !.vectorizer = clf.vectorizer_file]
    /\ UNCHANGED <<clf, threads, training_runs, thread_frame>>

NextThreads ==
    \/ \E t \in Threads : CallPredict(t)
    \/ \E t \in Threads : CallTrain(t)
    \/ \E t \in Threads : CheckFiles(t)
    \/ \E t \in Threads : ReadModel(t)
    \/ \E t \in Threads : ReadVectorizer(t)
    \/ \E t \in Threads : PrepareData(t)
    \/ \E t \in Threads : FitVectorizer(t)
    \/ \E t \in Threads : FitModel(t)
    \/ \E t \in Threads : OpenModelForWrite(t)
    \/ \E t \in Threads : DumpModel(t)
    \/ \E t \in Threads : OpenVectorizerForWrite(t)
    \/ \E t \in Threads : DumpVectorizer(t)
    \/ ReaderCheckFiles
    \/ ReaderReadModel
    \/ ReaderReadVectorizer

SpecThreads == InitThreads /\ [][NextThreads]_vars

-----------------------------------------------------------------------------
(* Properties of a parsing session. *)

\* This step is one iteration of the loop: line' is the line it consumed.
LineStep == pc = "inpage" /\ unread' = unread - 1

\* The trailer total a trailer line declares, in cents.
Declared(l) == DecimalCents(StripMoney(TrailerAmountMatch(l.amount)))

\* The sum of the amounts stored with the transactions, in cents.
RECURSIVE SumAmounts(_)
SumAmounts(transactions) ==
    IF transactions = <<>> THEN 0
    ELSE DecimalCents(StripMoney(Head(transactions).amount))
         + SumAmounts(Tail(transactions))

Verified(d, h) == h \in DOMAIN d /\ d[h].verified_amounts

\* C1: a holder's verified flag turns true only in a step that consumes a
\* trailer line naming that holder whose declared total, formatted as currency,
\* equals the formatted running total; the running total is then the sum of
\* the amounts of the holder's recorded transactions.
C1_VerifiedOnlyByMatchingTrailer ==
    [][\A h \in DOMAIN data' :
          (Verified(data', h) /\ ~Verified(data, h))
          => /\ LineStep
             /\ done_match(line')
             /\ line'.name = h
             /\ currency(data'[h].transactions_total_amount)
                = currency(Declared(line'))
             /\ data'[h].transactions_total_amount
                = SumAmounts(data'[h].transactions)]_vars

\* A holder verified on the second page with two rows recorded, one per page.
C1_Witness ==
    /\ pc = "between"
    /\ page_num = 2
    /\ done_match(line)
    /\ Verified(data, line.name)
    /\ Len(data[line.name].transactions) = 2

\* The step consumes a trailer naming a recorded holder whose total is not
\* zero and differs from the total the trailer declares.
MismatchStep ==
    /\ LineStep
    /\ done_match(line')
    /\ line'.name \in DOMAIN data
    /\ data[line'.name].transactions_total_amount # 0
    /\ data[line'.name].transactions_total_amount # Declared(line')

\* The session ended on the failed comparison, with both totals logged.
MismatchReported(l, total) ==
    /\ pc' = "exited"
    /\ err' = Failure("mismatch", currency(total), currency(Declared(l)))

\* C2 (as stated): a trailer whose declared total differs from the holder's
\* non-zero running total ends the session with both totals reported, and the
\* step sets no verified flag.
C2_MismatchAlwaysReported ==
    [][MismatchStep
       => /\ MismatchReported(line', data[line'.name].transactions_total_amount)
          /\ data' = data]_vars

\* C2 (amended): such a trailer always ends the session and the step sets no
\* verified flag; both totals are reported unless the continuation flag is
\* set, in which case the session ends on the continuation check instead.
C2_MismatchAborts ==
    [][MismatchStep
       => /\ pc' = "exited"
          /\ data' = data
          /\ IF have_continuation
             THEN err' = Failure("continuation", <<>>, <<>>)
             ELSE MismatchReported(line',
                                   data[line'.name].transactions_total_amount)]_vars

\* A session ended by a mismatch, the two totals logged.
C2_Witness ==
    /\ pc = "exited"
    /\ err.why = "mismatch"
    /\ err.found = Amount4567
    /\ err.reported = Amount550

\* The step consumes a trailer naming a recorded holder with no transaction.
EmptyBlockStep ==
    /\ LineStep
    /\ done_match(line')
    /\ line'.name \in DOMAIN data
    /\ data[line'.name].transactions = <<>>

\* The trailer follows its holder's header at once on the same page, or is
\* the first line of a page.
ImmediateTrailer ==
    \/ line = NoLine
    \/ (name_match(line) /\ line.name = line'.name)

\* C3 (as stated): the trailer that immediately closes a block without rows
\* ends the session on the zero-total check and the holder is not verified.
C3_EmptyBlockZeroTotalError ==
    [][(EmptyBlockStep /\ ImmediateTrailer)
       => /\ pc' = "exited"
          /\ err'.why = "zero_total"
          /\ ~Verified(data', line'.name)]_vars

\* C3 (amended): the trailer of a block without rows always ends the session
\* and the holder is not verified, whatever the trailer declares: on the
\* zero-total check, or on the continuation check when the flag is set.
C3_EmptyBlockAborts ==
    [][EmptyBlockStep
       => /\ pc' = "exited"
          /\ err'.why = (IF have_continuation THEN "continuation" ELSE "zero_total")
          /\ ~Verified(data', line'.name)]_vars

\* A block without rows closed by a trailer that declares $0.00, header and
\* trailer on different pages.
C3_Witness ==
    /\ pc = "exited"
    /\ err.why = "zero_total"
    /\ page_num = 2
    /\ line = TrailerLine("JANE DOE", Amount000)
    /\ data["JANE DOE"].transactions = <<>>

\* C6: a call that returned after a trailer closed a block has consumed every
\* line of its page text.
C6_RestOfPageConsumed ==
    (pc = "between" /\ done_match(line)) => unread = 0

\* C7: the step that closes a block leaves the closed holder verified and the
\* queue empty, and while the queue is empty no line other than a holder
\* header changes any holder's transactions or total.
C7_ClosedHolderNotActive ==
    [][/\ (LineStep /\ done_match(line') /\ pc' = "between")
          => (Verified(data', line'.name) /\ current_queue' = None)
       /\ (LineStep /\ current_queue = None /\ ~name_match(line'))
          => \A h \in DOMAIN data :
                /\ data'[h].transactions = data[h].transactions
                /\ data'[h].transactions_total_amount
                   = data[h].transactions_total_amount]_vars

\* A matching row consumed on the page after a block was closed, under a
\* column header, and not recorded.
C7_Witness ==
    /\ pc = "inpage"
    /\ page_num = 2
    /\ transaction_match(line)
    /\ processing_transactions = FALSE
    /\ current_queue = None
    /\ \E h \in DOMAIN data : Verified(data, h) /\ Len(data[h].transactions) = 1

\* C8: a trailer consumed while a continuation marker is open (none of the
\* lines since the marker has cleared it) ends the session on the continuation
\* check, whichever page the marker was on.
C8_OpenMarkerBlocksTrailer ==
    [][(LineStep /\ done_match(line') /\ marker_open)
       => (pc' = "exited" /\ err'.why = "continuation")]_vars

\* C9: a document returned by analyze_capitalone_pdf holds verified holders only.
C9_ReturnedHoldersVerified ==
    pc = "returned" => \A h \in DOMAIN data : data[h].verified_amounts

-----------------------------------------------------------------------------
(* Properties of whole statements. *)

\* The document the worked example is expected to give.
ExampleDocument ==
    [h \in {"JANE DOE"} |->
        [account |-> <<"JANE DOE", "1234">>,
         verified_amounts |-> TRUE,
         transactions |->
            <<[transaction_date |-> "Jan 3", post_date |-> "Jan 5",
               description |-> WalmartStore100,
               transaction_category |-> "shopping",
               amount |-> Amount4567]>>,
         transactions_total_amount |-> 4567]]

\* The fields of a holder's entry that a caller reads.
HolderEntry(o, h) ==
    IF h \in DOMAIN o.data
    THEN [present |-> TRUE, transactions |-> o.data[h].transactions,
          total |-> o.data[h].transactions_total_amount,
          verified |-> o.data[h].verified_amounts]
    ELSE [present |-> FALSE, transactions |-> <<>>, total |-> 0,
          verified |-> FALSE]

\* C4: the worked example runs to the end without an error and returns one
\* holder, JANE DOE, verified, with the one transaction Jan 3 / Jan 5 /
\* WALMART STORE 100 / 45.67 / shopping.
C4_ExampleVerified ==
    (trial.kind = "example" /\ trial.out_first # NoOutcome)
    => /\ trial.out_first.status = "returned"
       /\ trial.out_first.err = NoFailure
       /\ DOMAIN trial.out_first.data = {"JANE DOE"}
       /\ HolderEntry(trial.out_first, "JANE DOE")
          = [present |-> TRUE,
             transactions |-> ExampleDocument["JANE DOE"].transactions,
             total |-> 4567, verified |-> TRUE]

\* C5: a block split over two pages, a continuation line before the rows of
\* the second page, ends as the same block on a single page does: the same
\* status and the same transactions, total and verified flag of the holder.
C5_SplitEqualsSinglePage ==
    (trial.kind = "split" /\ trial.out_first # NoOutcome
     /\ trial.out_second # NoOutcome)
    => /\ trial.out_first.status = trial.out_second.status
       /\ HolderEntry(trial.out_first, "JANE DOE")
          = HolderEntry(trial.out_second, "JANE DOE")

-----------------------------------------------------------------------------
(* Properties of the classifier. *)

\* The first entry of known_patterns that matches, 0 when none does.
KnownPattern(description) ==
    IF \E i \in 1..Len(known_patterns) :
          re_search(known_patterns[i].pattern, description)
    THEN CHOOSE i \in 1..Len(known_patterns) :
            /\ re_search(known_patterns[i].pattern, description)
            /\ \A j \in 1..(i - 1) :
                  ~re_search(known_patterns[j].pattern, description)
    ELSE 0

\* C10: a call of predict_category on a description that an entry of
\* known_patterns matches, whatever its case, returns that entry's category
\* with confidence 1.0, whatever the fitted model answers.
C10_KnownPatternWins ==
    (result.called /\ KnownPattern(result.description) # 0)
    => /\ ~result.raised
       /\ result.category = known_patterns[KnownPattern(result.description)].category
       /\ result.confidence = 100

\* The training data file is missing or holds no entry.
NoTrainingData(c) ==
    ~c.training_data_file.exists \/ c.training_data_file.entries = <<>>

\* C11: with the training data missing or empty and an artifact absent, so
\* that training failed and no model is held, a call on a description that an
\* entry of known_patterns matches returns that entry's category and does not
\* raise.
C11_KnownPatternWithoutTrainingData ==
    (/\ result.called
     /\ KnownPattern(result.description) # 0
     /\ NoTrainingData(clf)
     /\ (clf.model_file = "absent" \/ clf.vectorizer_file = "absent")
     /\ clf.model = None)
    => /\ ~result.raised
       /\ result.category = known_patterns[KnownPattern(result.description)].category

\* C12: a call that holds a fitted model and vectorizer, on a description no
\* entry of known_patterns matches, returns the model's label exactly when the
\* model's confidence reaches the threshold, and "other" below it.
C12_ThresholdDecides ==
    (/\ result.called
     /\ ~result.raised
     /\ KnownPattern(result.description) = 0
     /\ clf.model = "fitted" /\ clf.vectorizer = "fitted")
    => /\ (result.category = ml.label) <=> (ml.conf >= confidence_threshold)
       /\ (ml.conf < confidence_threshold) => (result.category = "other")

\* C13: every label predict_category returns is a member of ExpenseCategory,
\* whatever the training data file holds.
C13_ReturnedCategoryInEnumeration ==
    (result.called /\ ~result.raised) => result.category \in ExpenseCategory

\* The training data file holds an entry whose category, lower-cased, is no
\* value of ExpenseCategory.
HasInvalidCategory(c) ==
    /\ c.training_data_file.exists
    /\ \E i \in 1..Len(c.training_data_file.entries) :
          lower(c.training_data_file.entries[i].category) \notin ExpenseCategory

\* C14: a call of train_and_save on training data that holds an entry with a
\* category outside ExpenseCategory returns False, fits no model and writes no
\* artifact.
C14_InvalidCategoryFailsTraining ==
    [][(TrainAndSave /\ HasInvalidCategory(clf))
       => (~ret'.returned /\ clf' = clf)]_vars

\* The instance holds a model and a vectorizer.
Holds(c) == c.model # None /\ c.vectorizer # None

\* The training data file holds an entry that _prepare_training_data keeps.
HasValidCategory(c) ==
    /\ c.training_data_file.exists
    /\ \E i \in 1..Len(c.training_data_file.entries) :
          lower(c.training_data_file.entries[i].category) \in ExpenseCategory

\* C15: a classification call on an instance that holds no model loads both
\* artifacts when both are there and readable; when one is absent it does not
\* raise, and it fits and writes both artifacts if the training data has an
\* entry to fit on and changes nothing otherwise.  A call on an instance that
\* holds both changes neither the instance nor any file.
C15_LazyLoad ==
    [][PredictCategory
       => /\ Holds(clf) => clf' = clf
          /\ (~Holds(clf) /\ clf.model_file = "ok" /\ clf.vectorizer_file = "ok")
             => /\ ~result'.raised
                /\ clf' = [clf EXCEPT !.model = "fitted", !.vectorizer = "fitted"]
          /\ (~Holds(clf)
              /\ (clf.model_file = "absent" \/ clf.vectorizer_file = "absent"))
             => /\ ~result'.raised
                /\ clf' = IF HasValidCategory(clf)
                          THEN [clf EXCEPT !.model = "fitted",
                                           !.vectorizer = "fitted",
                                           !.model_file = "ok",
                                           !.vectorizer_file = "ok"]
                          ELSE clf]_vars

\* A first call that found no artifact, trained and wrote both, with no call
\* of train_and_save or save_descriptions before it.
C15_Witness ==
    /\ result.called
    /\ ~result.raised
    /\ ret = NoCall
    /\ ~Holds(result.before)
    /\ result.before.model_file = "absent"
    /\ result.before.vectorizer_file = "absent"
    /\ Holds(clf)
    /\ clf.model_file = "ok" /\ clf.vectorizer_file = "ok"

\* The descriptions that are keys of the training data file.
Keys(c) ==
    {c.training_data_file.entries[i].transaction :
        i \in 1..Len(c.training_data_file.entries)}

\* The step is a call of save_descriptions: in a review session no other step
\* leaves ret at it.
SaveStep == ret'.op = "save_descriptions"

\* C16: a call of save_descriptions leaves the set of descriptions of the
\* training data file as it was: it inserts none and removes none.
C16_KeySetUnchanged ==
    [][SaveStep
       => /\ Keys(clf') = Keys(clf)
          /\ clf'.training_data_file.exists = clf.training_data_file.exists]_vars

\* A call given a record for TARGET, which is no key, and a record that moved
\* WALMART to groceries: the category is overwritten and TARGET is not there.
C16_Witness ==
    /\ ret.op = "save_descriptions"
    /\ ret.returned
    /\ \E i \in 1..Len(ret.descriptions_data) :
          ret.descriptions_data[i] = Entry("TARGET", "shopping")
    /\ \E i \in 1..Len(ret.descriptions_data) :
          ret.descriptions_data[i] = Entry("WALMART", "groceries")
    /\ \E i \in 1..Len(clf.training_data_file.entries) :
          clf.training_data_file.entries[i] = Entry("WALMART", "groceries")
    /\ "TARGET" \notin Keys(clf)

\* C19: the instance holds a model and a vectorizer or neither of them,
\* whatever the artifact files were when a call tried to load them.
C19_BothOrNeither ==
    (clf.model = None) <=> (clf.vectorizer = None)

-----------------------------------------------------------------------------
(* Properties of concurrent callers. *)

\* C17: a process that loads the artifacts while a save runs, or after a save
\* stopped part-way, never fails on a partly written file, and the model and
\* the vectorizer it has loaded come from the same save.
C17_AtomicSave ==
    /\ reader.pc # "raised"
    /\ reader.pc = "done" => reader.model = reader.vectorizer

\* The thread is inside the load-or-train path of a classification call.
InFlight(t) ==
    /\ threads[t].op = "predict"
    /\ threads[t].pc \notin {"idle", "done", "raised"}

\* C18: of the threads that call predict_category on the instance, at most
\* one is inside the load-or-train path at a time, and at most one starts a
\* training run.
C18_OneLoadOrTrainInFlight ==
    /\ Cardinality({t \in DOMAIN threads : InFlight(t)}) <= 1
    /\ Cardinality({t \in training_runs : threads[t].op = "predict"}) <= 1

-----------------------------------------------------------------------------
(* Properties of repeated sessions. *)

\* C20: the same pages parsed in two fresh sessions, the second with the
\* classifier and the files as the first left them or in a new process, end
\* the same way with the same document.
C20_SamePagesSameDocument ==
    (/\ trial.kind = "repeat"
     /\ trial.out_first # NoOutcome
     /\ trial.out_second # NoOutcome)
    => trial.out_first = trial.out_second

\* Two sessions on one statement, both returned with the holder verified and
\* its row labelled by the model that the first session had to train.
C20_Witness ==
    /\ trial.kind = "repeat"
    /\ trial.out_first.status = "returned"
    /\ trial.out_second.status = "returned"
    /\ trial.out_first.data["JANE DOE"].verified_amounts
    /\ trial.out_first.data["JANE DOE"].transactions[1].transaction_category
       = "groceries"
    /\ clf.training_data_file.exists
    /\ clf.model_file = "ok" /\ clf.vectorizer_file = "ok"

-----------------------------------------------------------------------------
(* Properties of single lines. *)

\* The line matches none of the patterns the loop knows: no trailer, no holder
\* header, no continuation marker, not the column header and no transaction row.
Unrecognised(l) ==
    /\ ~done_match(l)
    /\ ~name_match(l)
    /\ ~has_continued(l)
    /\ ~is_header(l)
    /\ ~transaction_match(l)

\* C21: a step that consumes a line matching none of the patterns does not end
\* the session, records no error and leaves the document as it was: the same
\* holders with the same transactions, totals and verified flags, and the same
\* holder in the queue.
C21_UnrecognisedLineDiscarded ==
    [][(LineStep /\ Unrecognised(line'))
       => /\ pc' = "inpage"
          /\ err' = err
          /\ data' = data
          /\ current_queue' = current_queue]_vars

\* A line of other text consumed among the rows of an open block that already
\* holds a transaction.
C21_Witness ==
    /\ pc = "inpage"
    /\ line = NoiseLine
    /\ processing_transactions
    /\ current_queue # None
    /\ Len(data[current_queue].transactions) = 1

\* C22: a continuation marker consumed while no holder is in the queue ends
\* the session as a protocol violation; it neither sets have_continuation nor
\* turns processing_transactions on.
C22_MarkerNeedsActiveHolder ==
    [][(LineStep /\ line' = MarkerLine /\ current_queue = None)
       => /\ pc' = "exited"
          /\ ~have_continuation'
          /\ ~processing_transactions']_vars

-----------------------------------------------------------------------------
(* Properties of the recorded transactions. *)

\* The transactions recorded for h, none when h is no holder of d.
Recorded(d, h) == IF h \in DOMAIN d THEN d[h].transactions ELSE <<>>

\* The amount group of a row line, parsed as the row branch parses it.
RowCents(l) == DecimalCents(StripMoney(RowAmountMatch(l.amount)))

\* The step appended the row it consumed at the end of h's transactions.
RowAppended(h) ==
    /\ LineStep
    /\ transaction_match(line')
    /\ h = current_queue
    /\ Len(Recorded(data', h)) = Len(Recorded(data, h)) + 1
    /\ SubSeq(Recorded(data', h), 1, Len(Recorded(data, h))) = Recorded(data, h)
    /\ Recorded(data', h)[Len(Recorded(data', h))].description = line'.desc
    /\ Recorded(data', h)[Len(Recorded(data', h))].amount
       = currency(RowCents(line'))

\* C23: in every state each holder's running total is the sum of the amounts
\* stored with its transactions, and a holder's transactions change only by the
\* row just consumed being appended at the end, on whichever page it is read.
C23_TotalIsSumInRowOrder ==
    /\ [](\A h \in DOMAIN data :
            data[h].transactions_total_amount = SumAmounts(data[h].transactions))
    /\ [][\A h \in DOMAIN data' :
            Recorded(data', h) = Recorded(data, h) \/ RowAppended(h)]_vars

\* Two rows of one holder recorded on two pages, $45.67 and then $5.5, the
\* total at $51.17.
C23_Witness ==
    /\ pc = "inpage"
    /\ page_num = 2
    /\ transaction_match(line)
    /\ current_queue # None
    /\ Len(data[current_queue].transactions) = 2
    /\ data[current_queue].transactions[1].amount = Amount4567
    /\ data[current_queue].transactions[2].amount = Amount550
    /\ data[current_queue].transactions_total_amount = 5117

\* The value of a holder's transactions_count: 0 for the empty list it starts as.
RowCounter(account) ==
    IF account.transactions_count = <<>> THEN 0
    ELSE account.transactions_count[1]

\* C24: in every state a holder's row counter is the number of transactions
\* recorded for that holder.
C24_RowCounterCountsTransactions ==
    \A h \in DOMAIN data : RowCounter(data[h]) = Len(data[h].transactions)

\* C25: a step that consumes a holder header puts the named holder in the
\* queue and goes on; a holder that was absent is created with total zero, no
\* transaction and verified false, a holder that was there keeps its
\* transactions and its total, and no other holder's entry changes.
C25_HeaderActivatesHolder ==
    [][(LineStep /\ name_match(line'))
       => /\ pc' = "inpage"
          /\ current_queue' = line'.name
          /\ DOMAIN data' = DOMAIN data \cup {line'.name}
          /\ line'.name \notin DOMAIN data
             => /\ data'[line'.name].transactions_total_amount = 0
                /\ data'[line'.name].transactions = <<>>
                /\ data'[line'.name].verified_amounts = FALSE
          /\ line'.name \in DOMAIN data
             => /\ data'[line'.name].transactions = data[line'.name].transactions
                /\ data'[line'.name].transactions_total_amount
                   = data[line'.name].transactions_total_amount
          /\ \A h \in DOMAIN data \ {line'.name} : data'[h] = data[h]]_vars

\* The header of a holder read again on the second page, the holder's row of
\* the first page still recorded, while another holder is recorded too.
C25_Witness ==
    /\ pc = "inpage"
    /\ page_num = 2
    /\ name_match(line)
    /\ current_queue = line.name
    /\ Len(data[line.name].transactions) = 1
    /\ data[line.name].transactions_total_amount = 4567
    /\ DOMAIN data = Holders

\* C26: a step that consumes a trailer turns the verified flag on for no
\* holder other than the one in the queue, and a trailer naming another holder
\* than the one in the queue either ends the session with an error or leaves
\* the document and the queue as they were.
C26_TrailerClosesActiveHolderOnly ==
    [][(LineStep /\ done_match(line'))
       => /\ \A h \in DOMAIN data' :
                (Verified(data', h) /\ ~Verified(data, h)) => h = current_queue
          /\ line'.name # current_queue
             => \/ pc' = "exited"
                \/ (data' = data /\ current_queue' = current_queue)]_vars

\* C27: no step appends a transaction to a holder that is verified or changes
\* that holder's total.
C27_VerifiedHolderFrozen ==
    [][\A h \in DOMAIN data :
          Verified(data, h)
          => /\ data'[h].transactions = data[h].transactions
             /\ data'[h].transactions_total_amount
                = data[h].transactions_total_amount]_vars

\* C28: a matching row consumed directly after a line that is a holder header
\* and holds the continuation marker is recorded for the holder that line
\* names.
C28_NamedContinuationOpensRows ==
    [][(LineStep /\ name_match(line) /\ has_continued(line)
        /\ transaction_match(line'))
       => RowAppended(line.name)]_vars

-----------------------------------------------------------------------------
(* Properties of clean_text. *)

\* C29: a second pass of clean_text returns what the first pass returned.
C29_CleanTextIdempotent ==
    cleaned.passes = 2 => cleaned.value = cleaned.previous

-----------------------------------------------------------------------------
(* Properties of the correction feedback. *)

\* The category the training data file holds for the key k.
CategoryOf(c, k) ==
    c.training_data_file.entries[
        CHOOSE i \in 1..Len(c.training_data_file.entries) :
            c.training_data_file.entries[i].transaction = k].category

\* The corrected record can overwrite the category of the key k: it is well
\* formed, names k, and is not labelled "unknown".
Corrects(desc, k) ==
    /\ well_formed(desc)
    /\ desc.transaction = k
    /\ desc.category # "unknown"

\* No record of descriptions_data would change a category of the training
\* data: each that names a key carries the key's category or "unknown".
NothingToChange(c, descriptions_data) ==
    \/ ~c.training_data_file.exists
    \/ c.training_data_file.form # "dict"
    \/ \A j \in 1..Len(descriptions_data) :
          \A k \in Keys(c) :
              Corrects(descriptions_data[j], k)
              => descriptions_data[j].category = CategoryOf(c, k)

\* C30: in a call of save_descriptions a key's category stays as it was or
\* becomes the category of a record that names the key and is not labelled
\* "unknown"; when no record would change a category the file is not written
\* and stays as it was; and a call with the corrections of the call just
\* before it leaves the training data as that call left it.
C30_FeedbackOnlyCorrects ==
    [][SaveStep
       => /\ clf'.training_data_file.form = "dict"
             => \A k \in Keys(clf') :
                   \/ k \in Keys(clf) /\ CategoryOf(clf', k) = CategoryOf(clf, k)
                   \/ \E j \in 1..Len(ret'.descriptions_data) :
                         /\ Corrects(ret'.descriptions_data[j], k)
                         /\ ret'.descriptions_data[j].category
                            = CategoryOf(clf', k)
          /\ NothingToChange(clf, ret'.descriptions_data)
             => (~ret'.written /\ clf' = clf)
          /\ (ret.op = "save_descriptions"
              /\ ret'.descriptions_data = ret.descriptions_data)
             => clf' = clf]_vars

\* A call given a record that moves WALMART to groceries and then a record
\* that labels WALMART "unknown": the file was written and WALMART is
\* groceries.
C30_Witness ==
    /\ ret.op = "save_descriptions"
    /\ ret.descriptions_data
       = <<Entry("WALMART", "groceries"), Entry("WALMART", "unknown")>>
    /\ ret.written
    /\ "WALMART" \in Keys(clf)
    /\ CategoryOf(clf, "WALMART") = "groceries"

====
